---- MODULE Spec2Model ----
(***************************************************************************)
(* Model of the astro-scope pipeline: the normalizer and cleaner of        *)
(* src/lib/data_processing.py (flatten_asteroid_data, clean_dataframe,     *)
(* process_asteroid_data), the analysis of src/lib/analysis.py             *)
(* (calculate_risk_score, calculate_z_scores, generate_time_series_data,   *)
(* analyze_asteroid_data), the chunked fetch of src/lib/data_fetcher.py    *)
(* (fetch_data_in_chunks) and the dashboard's load_data of src/app.py.     *)
(*                                                                         *)
(* Numbers.  A pandas float is modelled as an exact rational               *)
(* [n |-> numerator, d |-> denominator] in lowest terms with d > 0; the    *)
(* value NaN is [n |-> 0, d |-> 0].  Arithmetic is exact, so a statement   *)
(* about a score "equal to 0.6" is about the rational 3/5.                 *)
(*                                                                         *)
(* Tables.  A DataFrame is [isNone |-> FALSE, rows |-> <<row, ...>>] and   *)
(* Python's None is [isNone |-> TRUE, rows |-> <<>>].  Input tables are    *)
(* enumerated up to the order of their rows (rows in non-decreasing order  *)
(* of a row code): every stage treats the rows of a table independently of *)
(* their order.                                                            *)
(***************************************************************************)
EXTENDS Integers, Sequences, FiniteSets, TLC

(* ------------------------------ bounds -------------------------------- *)
\* analyze_asteroid_data: rows of the cleaned file, its dates and the larger
\* value of a signal
MaxRows == 2
MaxDate == 2
MaxValue == 1
\* calculate_risk_score on its own: rows and the largest value of a signal
MaxBatch == 3
MaxSignal == 3
\* calculate_z_scores on its own: rows and values of the four metrics
MaxZBatch == 7
MaxZValue == 3
\* generate_time_series_data on its own: rows, days, the larger size and the
\* larger risk score (in tenths)
MaxTSRows == 4
MaxDay == 8
MaxSize == 1
MaxRiskTenths == 7

\* calculate_risk_score on the records of the end-to-end scenario: rows
MaxScenarioRows == 3

\* flatten_asteroid_data on its own: asteroid entries, their dates and the
\* larger diameter
MaxEntries == 2
MaxRawDate == 2
MaxDiameter == 2
\* clean_dataframe on its own: rows and the larger value of a cell
MaxFlatRows == 4
MaxCell == 3
\* load_data: calls of one session
MaxCalls == 2

\* fetch_data_in_chunks on its own: the first day, the days of the range
\* and the chunk size (7 is the default)
MaxStart == 2
MaxFetchDays == 10
MaxChunkSize == 7

(* --------------------------- float arithmetic ------------------------- *)
Abs(i) == IF i < 0 THEN -i ELSE i

RECURSIVE GCD(_, _)
GCD(a, b) == IF b = 0 THEN a ELSE GCD(b, a % b)

NaN == [n |-> 0, d |-> 0]

IsNaN(x) == x.d = 0

\* the rational n/d (d > 0) in lowest terms
Rat(n, d) ==
    LET g == GCD(Abs(n), d) IN [n |-> n \div g, d |-> d \div g]

R(i) == [n |-> i, d |-> 1]

Add(x, y) ==
    IF IsNaN(x) \/ IsNaN(y) THEN NaN ELSE Rat(x.n * y.d + y.n * x.d, x.d * y.d)

Sub(x, y) ==
    IF IsNaN(x) \/ IsNaN(y) THEN NaN ELSE Rat(x.n * y.d - y.n * x.d, x.d * y.d)

Mul(x, y) ==
    IF IsNaN(x) \/ IsNaN(y) THEN NaN ELSE Rat(x.n * y.n, x.d * y.d)

\* x / y.  A zero divisor occurs in the program only with a zero dividend
\* (x - min over a column whose max equals its min; x - mean over a column
\* whose deviation is zero), and 0.0 / 0.0 is NaN.
Div(x, y) ==
    IF IsNaN(x) \/ IsNaN(y) \/ y.n = 0 THEN NaN
    ELSE IF y.n > 0 THEN Rat(x.n * y.d, x.d * y.n)
    ELSE Rat(-(x.n * y.d), x.d * (-y.n))

\* comparisons are false as soon as an operand is NaN
Lt(x, y) == ~IsNaN(x) /\ ~IsNaN(y) /\ x.n * y.d < y.n * x.d

Le(x, y) == ~IsNaN(x) /\ ~IsNaN(y) /\ x.n * y.d <= y.n * x.d

(* ------------------------------- tables ------------------------------- *)
None == [isNone |-> TRUE, rows |-> <<>>]

DataFrame(rows) == [isNone |-> FALSE, rows |-> rows]

\* df.empty
empty(df) == Len(df.rows) = 0

\* the numbers of a column
Valid(col) == {col[i] : i \in {j \in DOMAIN col : ~IsNaN(col[j])}}

\* Series.min()
ColMin(col) ==
    IF Valid(col) = {} THEN NaN
    ELSE CHOOSE v \in Valid(col) : \A w \in Valid(col) : Le(v, w)

\* Series.max()
ColMax(col) ==
    IF Valid(col) = {} THEN NaN
    ELSE CHOOSE v \in Valid(col) : \A w \in Valid(col) : Le(w, v)

\* df[name]
Column(rows, name) == [i \in DOMAIN rows |-> rows[i][name]]

\* the positions of a column that hold a number (pandas reductions skip NaN)
ValidIdx(col) == {j \in DOMAIN col : ~IsNaN(col[j])}

\* the sum of the numbers among the first k entries of a column
RECURSIVE SumTo(_, _)
SumTo(col, k) ==
    IF k = 0 THEN R(0)
    ELSE IF IsNaN(col[k]) THEN SumTo(col, k - 1)
    ELSE Add(SumTo(col, k - 1), col[k])

\* Series.mean(): NaN when the column holds no number
Mean(col) ==
    IF ValidIdx(col) = {} THEN NaN
    ELSE Div(SumTo(col, Len(col)), R(Cardinality(ValidIdx(col))))

\* Series.std() squared (sample variance, ddof=1): NaN for fewer than two
\* numbers
Variance(col) ==
    LET m == Mean(col)
        sq == [i \in DOMAIN col |-> Mul(Sub(col[i], m), Sub(col[i], m))]
    IN  IF Cardinality(ValidIdx(col)) < 2 THEN NaN
        ELSE Div(SumTo(sq, Len(col)), R(Cardinality(ValidIdx(col)) - 1))

(* ---------------------------- Risk Scorer ----------------------------- *)
\* (x - min) / (max - min)
min_max(x, lo, hi) == Div(Sub(x, lo), Sub(hi, lo))

diameter_norm(rows) ==
    LET col == Column(rows, "diameter_mean_km") IN
    [i \in DOMAIN rows |-> min_max(col[i], ColMin(col), ColMax(col))]

velocity_norm(rows) ==
    LET col == Column(rows, "relative_velocity_km_s") IN
    [i \in DOMAIN rows |-> min_max(col[i], ColMin(col), ColMax(col))]

\* variant of miss_dist_norm that does not invert the normalised distance
miss_dist_norm_direct(rows) ==
    LET col == Column(rows, "miss_distance_km")
    IN  [i \in DOMAIN rows |-> min_max(col[i], ColMin(col), ColMax(col))]

miss_dist_norm(rows) ==
    LET col == Column(rows, "miss_distance_km")
        miss_dist_min == ColMin(col)
        miss_dist_max == ColMax(col)
    IN  [i \in DOMAIN rows |->
            Sub(R(1), Div(Sub(col[i], miss_dist_min),
                          Sub(miss_dist_max, miss_dist_min)))]

\* 0.4 * diameter_norm + 0.3 * velocity_norm + 0.3 * miss_dist_norm
composite(dn, vn, mn) ==
    Add(Add(Mul(Rat(4, 10), dn), Mul(Rat(3, 10), vn)), Mul(Rat(3, 10), mn))

bins == <<R(0), Rat(2, 10), Rat(4, 10), Rat(6, 10), Rat(8, 10), R(1)>>

labels == <<"Very Low", "Low", "Medium", "High", "Very High">>

\* the risk_level of a record that pd.cut leaves without a label
Missing == "NaN"

\* variant of clip_upper that leaves the score unclipped
clip_upper_off(x) == x

\* .clip(upper=1.0)
clip_upper(x) == IF Lt(R(1), x) THEN R(1) ELSE x

\* variant of adjust_and_clip that clips first and adds the bonus afterwards
clip_then_adjust(score, hazardous) ==
    IF hazardous = TRUE THEN Add(clip_upper(score), Rat(2, 10))
    ELSE clip_upper(score)

\* the hazardous adjustment followed by the clip
adjust_and_clip(score, hazardous) ==
    clip_upper(IF hazardous = TRUE THEN Add(score, Rat(2, 10)) ELSE score)

\* variant of cut with right=False: bin k is [bins[k], bins[k+1])
cut_left_closed(x) ==
    LET hit == {k \in 1..Len(labels) : Le(bins[k], x) /\ Lt(x, bins[k + 1])}
    IN  IF hit = {} THEN Missing ELSE labels[CHOOSE k \in hit : TRUE]

\* pd.cut(x, bins, labels) with its defaults right=True, include_lowest=False:
\* bin k is (bins[k], bins[k+1]]; a value in no bin, or NaN, has no label
cut(x) ==
    LET hit == {k \in 1..Len(labels) : Lt(bins[k], x) /\ Le(x, bins[k + 1])}
    IN  IF hit = {} THEN Missing ELSE labels[CHOOSE k \in hit : TRUE]

calculate_risk_score(df) ==
    IF df.isNone \/ empty(df) THEN None
    ELSE LET rows == df.rows
             dn == diameter_norm(rows)
             vn == velocity_norm(rows)
             mn == miss_dist_norm(rows)
             score == [i \in DOMAIN rows |->
                         adjust_and_clip(composite(dn[i], vn[i], mn[i]),
                                         rows[i].is_potentially_hazardous)]
         IN  DataFrame([i \in DOMAIN rows |->
                 [risk_score |-> score[i], risk_level |-> cut(score[i])]
                     @@ rows[i]])

(* -------------------------- Anomaly Detector -------------------------- *)
columns == <<"diameter_mean_km", "miss_distance_km",
             "relative_velocity_km_s", "risk_score">>

\* A z-score is kept as its sign and its square, [sgn |-> -1 | 0 | 1,
\* sq |-> z * z], because Series.std() is the square root of a rational;
\* the z-score NaN has sq = NaN.
ZNaN == [sgn |-> 0, sq |-> NaN]

Sign(i) == IF i < 0 THEN -1 ELSE IF i > 0 THEN 1 ELSE 0

\* (x - col_mean) / col_std, with col_var the square of col_std
zscore(x, col_mean, col_var) ==
    LET dev == Sub(x, col_mean)
        sq == Div(Mul(dev, dev), col_var)
    IN  IF IsNaN(sq) THEN ZNaN ELSE [sgn |-> Sign(dev.n), sq |-> sq]

\* variant of abs_gt_2 that also accepts abs(z) = 2
abs_ge_2(z) == Le(R(4), z.sq)

\* abs(z) > 2, that is z * z > 4; false for NaN
abs_gt_2(z) == Lt(R(4), z.sq)

\* the column f'{col}_zscore' of the table
zscore_column(rows, col) ==
    LET c == Column(rows, col)
        col_mean == Mean(c)
        col_var == Variance(c)
    IN  [i \in DOMAIN rows |-> zscore(c[i], col_mean, col_var)]

\* is_anomaly starts False and is set by every column whose abs(z) > 2
is_anomaly(z) == \E k \in DOMAIN columns : abs_gt_2(z[k])

calculate_z_scores(df) ==
    IF df.isNone \/ empty(df) THEN None
    ELSE LET rows == df.rows
             z == <<zscore_column(rows, columns[1]),
                    zscore_column(rows, columns[2]),
                    zscore_column(rows, columns[3]),
                    zscore_column(rows, columns[4])>>
         IN  DataFrame([i \in DOMAIN rows |->
                 [diameter_mean_km_zscore |-> z[1][i],
                  miss_distance_km_zscore |-> z[2][i],
                  relative_velocity_km_s_zscore |-> z[3][i],
                  risk_score_zscore |-> z[4][i],
                  is_anomaly |-> is_anomaly([k \in DOMAIN columns |-> z[k][i]])]
                     @@ rows[i]])

(* ----------------------- Time-Series Aggregator ----------------------- *)
\* the days of 1..last that belong to the set dates, ascending
RECURSIVE DaysOf(_, _)
DaysOf(dates, last) ==
    IF last = 0 THEN <<>>
    ELSE IF last \in dates THEN Append(DaysOf(dates, last - 1), last)
    ELSE DaysOf(dates, last - 1)

\* variant of resample_days that lists only the days that have a row
resample_days_present(rows) ==
    LET dates == {rows[i].date : i \in DOMAIN rows}
    IN  IF Len(rows) = 0 THEN <<>>
        ELSE DaysOf(dates, CHOOSE t \in dates : \A u \in dates : u <= t)

\* the index of df.resample('D'): every calendar day from the earliest to
\* the latest date of the rows (no day when there is no row)
resample_days(rows) ==
    IF Len(rows) = 0 THEN <<>>
    ELSE LET dates == {rows[i].date : i \in DOMAIN rows}
             first == CHOOSE t \in dates : \A u \in dates : t <= u
             last == CHOOSE t \in dates : \A u \in dates : u <= t
         IN  [k \in 1..(last - first + 1) |-> first + k - 1]

\* .fillna(0)
fillna0(x) == IF IsNaN(x) THEN R(0) ELSE x

\* variant of bucket that keeps the rows of all the days up to the day
bucket_through(rows, day) == SelectSeq(rows, LAMBDA r : r.date <= day)

\* the rows of one day's bucket
bucket(rows, day) == SelectSeq(rows, LAMBDA r : r.date = day)

\* df.resample('D').size(): the number of rows of each bucket
resample_size(rows, day) == R(Len(bucket(rows, day)))

\* variant of resample_mean that gives 0 for a bucket without rows
resample_mean_filled(rows, day, name) ==
    fillna0(Mean(Column(bucket(rows, day), name)))

\* df.resample('D')[name].mean(): NaN for a bucket without rows
resample_mean(rows, day, name) == Mean(Column(bucket(rows, day), name))

\* variant of high_risk_rows that also keeps a score of exactly 0.6
high_risk_rows_inclusive(rows) ==
    SelectSeq(rows, LAMBDA r : Le(Rat(6, 10), r.risk_score))

\* df[df['risk_score'] > 0.6]
high_risk_rows(rows) == SelectSeq(rows, LAMBDA r : Lt(Rat(6, 10), r.risk_score))

\* daily_high_risk as pd.concat aligns it with the other frames: it has a
\* value only on the days of its own index, and is missing elsewhere
daily_high_risk(rows, day) ==
    LET days == resample_days(high_risk_rows(rows))
    IN  IF \E k \in DOMAIN days : days[k] = day
        THEN resample_size(high_risk_rows(rows), day)
        ELSE NaN

base_columns == <<"asteroid_count", "avg_diameter_km", "avg_velocity_km_s",
                  "avg_miss_distance_km", "avg_risk_score", "high_risk_count">>

\* daily_data after the concat and the fillna of the count columns
daily_data(rows) ==
    LET days == resample_days(rows)
    IN  [k \in DOMAIN days |->
            [date |-> days[k],
             asteroid_count |-> fillna0(resample_size(rows, days[k])),
             avg_diameter_km |->
                 resample_mean(rows, days[k], "diameter_mean_km"),
             avg_velocity_km_s |->
                 resample_mean(rows, days[k], "relative_velocity_km_s"),
             avg_miss_distance_km |->
                 resample_mean(rows, days[k], "miss_distance_km"),
             avg_risk_score |-> resample_mean(rows, days[k], "risk_score"),
             high_risk_count |-> fillna0(daily_high_risk(rows, days[k]))]]

window == 7

\* variant of rolling_mean over all the rows up to k
rolling_mean_expanding(col, k) == Mean(SubSeq(col, 1, k))

\* .rolling(window=7, min_periods=1).mean() at row k: the mean of the
\* numbers among the last 7 rows ending at k, NaN when there is none
rolling_mean(col, k) ==
    Mean(SubSeq(col, IF k - window + 1 < 1 THEN 1 ELSE k - window + 1, k))

generate_time_series_data(df) ==
    IF df.isNone \/ empty(df) THEN None
    ELSE LET daily == daily_data(df.rows)
             avg == [c \in DOMAIN base_columns |->
                        [k \in DOMAIN daily |->
                            rolling_mean(Column(daily, base_columns[c]), k)]]
         IN  DataFrame([k \in DOMAIN daily |->
                 [asteroid_count_7d_avg |-> avg[1][k],
                  avg_diameter_km_7d_avg |-> avg[2][k],
                  avg_velocity_km_s_7d_avg |-> avg[3][k],
                  avg_miss_distance_km_7d_avg |-> avg[4][k],
                  avg_risk_score_7d_avg |-> avg[5][k],
                  high_risk_count_7d_avg |-> avg[6][k]]
                     @@ daily[k]])

\* prepare_visualization_data returns None for None or an empty table and a
\* dict of row subsets otherwise; only which of the two is kept
prepare_visualization_data(df) ==
    IF df.isNone \/ empty(df) THEN "None" ELSE "dict"

(* ------------------------------ Normalizer ---------------------------- *)
\* A raw document is [isNone, neo, rows]: isNone for no document, neo for
\* the key 'near_earth_objects', rows the asteroid entries of all its dates
\* in the order of iteration.  A raw value is a number, NaN for an absent
\* key, or Text for a string that is not a number.
Text == [n |-> 0, d |-> -1]

NoData == [isNone |-> TRUE, neo |-> FALSE, rows |-> <<>>]

RawData(entries) == [isNone |-> FALSE, neo |-> TRUE, rows |-> entries]

\* Python truth of a value that is None (absent) or a number
truthy(x) == ~IsNaN(x) /\ x.n # 0

\* d.get(key, 0): the default 0 for an absent key
get_or_0(x) == IF IsNaN(x) THEN R(0) ELSE x

\* float(x) raises ValueError for a string that is not a number and is the
\* number otherwise
float_raises(x) == x = Text

\* the lines of one asteroid that call float()
entry_raises(asteroid) ==
    /\ asteroid.close_approach_data
    /\ \/ /\ asteroid.has_miss_distance
          /\ float_raises(get_or_0(asteroid.kilometers))
       \/ /\ asteroid.has_relative_velocity
          /\ float_raises(get_or_0(asteroid.kilometers_per_hour))

\* asteroid_info of one asteroid; a key that is not set is NaN
asteroid_info(asteroid) ==
    LET has_diameter == asteroid.estimated_diameter_kilometers
        diameter_min_km ==
            IF has_diameter THEN asteroid.estimated_diameter_min ELSE NaN
        diameter_max_km ==
            IF has_diameter THEN asteroid.estimated_diameter_max ELSE NaN
        has_miss == asteroid.close_approach_data /\ asteroid.has_miss_distance
        has_velocity ==
            asteroid.close_approach_data /\ asteroid.has_relative_velocity
        relative_velocity_km_h ==
            IF has_velocity THEN get_or_0(asteroid.kilometers_per_hour) ELSE NaN
    IN  [date |-> asteroid.date,
         is_potentially_hazardous |-> asteroid.is_potentially_hazardous_asteroid,
         diameter_min_km |-> diameter_min_km,
         diameter_max_km |-> diameter_max_km,
         diameter_mean_km |->
             IF truthy(diameter_min_km) /\ truthy(diameter_max_km)
             THEN Div(Add(diameter_min_km, diameter_max_km), R(2))
             ELSE NaN,
         miss_distance_km |->
             IF has_miss THEN get_or_0(asteroid.kilometers) ELSE NaN,
         relative_velocity_km_h |-> relative_velocity_km_h,
         relative_velocity_km_s |-> Div(relative_velocity_km_h, R(3600))]

\* flatten_asteroid_data: [] for no document or no 'near_earth_objects', the
\* exception of the first float() that fails, the list of asteroid_info
\* otherwise
flatten_asteroid_data(data) ==
    IF data.isNone \/ ~data.neo THEN [raised |-> FALSE, rows |-> <<>>]
    ELSE IF \E i \in DOMAIN data.rows : entry_raises(data.rows[i])
    THEN [raised |-> TRUE, rows |-> <<>>]
    ELSE [raised |-> FALSE,
          rows |-> [i \in DOMAIN data.rows |-> asteroid_info(data.rows[i])]]

\* create_dataframe: None for an empty list
create_dataframe(flattened_data) ==
    IF Len(flattened_data) = 0 THEN None ELSE DataFrame(flattened_data)

(* -------------------------------- Cleaner ----------------------------- *)
numeric_columns ==
    <<"diameter_min_km", "diameter_max_km", "diameter_mean_km",
      "miss_distance_km", "relative_velocity_km_h", "relative_velocity_km_s">>

\* pd.to_numeric(errors='coerce'): NaN for what is not a number
to_numeric(x) == IF x.d <= 0 THEN NaN ELSE x

\* the k-th smallest of the numbers of a column
Kth(col, k) ==
    CHOOSE v \in Valid(col) :
        /\ Cardinality({j \in ValidIdx(col) : Lt(col[j], v)}) < k
        /\ k <= Cardinality({j \in ValidIdx(col) : Le(col[j], v)})

\* variant of median that takes the lower of the two middle values
median_low(col) ==
    LET n == Cardinality(ValidIdx(col))
    IN  IF n = 0 THEN NaN ELSE Kth(col, (n + 1) \div 2)

\* Series.median(): NaN is skipped; the middle value of an odd count, the
\* mean of the two middle values of an even count, NaN when there is none
median(col) ==
    LET n == Cardinality(ValidIdx(col))
    IN  IF n = 0 THEN NaN
        ELSE IF n % 2 = 1 THEN Kth(col, (n + 1) \div 2)
        ELSE Div(Add(Kth(col, n \div 2), Kth(col, (n \div 2) + 1)), R(2))

\* .fillna(value)
fillna(x, value) == IF IsNaN(x) THEN value ELSE x

\* .astype(bool) of a column of True, False and None
astype_bool(x) == x = "True"

\* one numeric column of cleaned_df
clean_column(rows, name) ==
    LET col == [i \in DOMAIN rows |-> to_numeric(rows[i][name])]
        median_value == <<median(col)>>
    IN  [i \in DOMAIN rows |-> fillna(col[i], median_value[1])]

clean_dataframe(df) ==
    IF df.isNone \/ empty(df) THEN None
    ELSE LET rows == df.rows
             c == <<clean_column(rows, numeric_columns[1]),
                    clean_column(rows, numeric_columns[2]),
                    clean_column(rows, numeric_columns[3]),
                    clean_column(rows, numeric_columns[4]),
                    clean_column(rows, numeric_columns[5]),
                    clean_column(rows, numeric_columns[6])>>
         IN  DataFrame([i \in DOMAIN rows |->
                 [date |-> rows[i].date,
                  diameter_min_km |-> c[1][i],
                  diameter_max_km |-> c[2][i],
                  diameter_mean_km |-> c[3][i],
                  miss_distance_km |-> c[4][i],
                  relative_velocity_km_h |-> c[5][i],
                  relative_velocity_km_s |-> c[6][i],
                  is_potentially_hazardous |->
                      astype_bool(rows[i].is_potentially_hazardous)]])

(* ------------------------- analyze_asteroid_data ---------------------- *)
VARIABLES files, df, scored_df, analyzed_df, time_series_df, viz_data,
          pc, error

\* process_asteroid_data: its locals raw_data, flattened_data, df (flat_df)
\* and cleaned_df
VARIABLES raw_data, flattened_data, flat_df, cleaned_df

\* load_data: the DATA_DIR setting, the files of that directory when it is
\* not 'data' (files holds those of 'data'), the stages run by the current
\* call, the number of calls and the message shown
VARIABLES data_dir, alt_files, ran, calls, message

\* fetch_data_in_chunks: its arguments start, end and chunk_size (days as
\* numbers), its locals current_start and all_data, and the date ranges of
\* the requests issued so far
VARIABLES start, end, chunk_size, current_start, all_data, requests

process_vars == <<raw_data, flattened_data, flat_df, cleaned_df>>

fetch_vars == <<start, end, chunk_size, current_start, all_data, requests>>

app_vars == <<data_dir, alt_files, ran, calls, message>>

vars == <<files, df, scored_df, analyzed_df, time_series_df, viz_data,
          pc, error, process_vars, app_vars, fetch_vars>>

\* df = load_clean_data(input_file); if df is None: return None, None, None
LoadCleanData ==
    /\ pc = "load"
    /\ df' = files.asteroids_clean
    /\ pc' = IF files.asteroids_clean.isNone THEN "returned" ELSE "risk"
    /\ UNCHANGED <<files, scored_df, analyzed_df, time_series_df, viz_data,
                   error>>
    /\ UNCHANGED <<process_vars, app_vars>>
    /\ UNCHANGED fetch_vars

\* variant of RiskScoreStep that adds the score columns to df itself
RiskScoreStepInPlace ==
    /\ pc = "risk"
    /\ scored_df' = calculate_risk_score(df)
    /\ df' = calculate_risk_score(df)
    /\ pc' = "zscores"
    /\ UNCHANGED <<files, analyzed_df, time_series_df, viz_data, error>>
    /\ UNCHANGED <<process_vars, app_vars>>
    /\ UNCHANGED fetch_vars

\* scored_df = calculate_risk_score(df), on a copy of df
RiskScoreStep ==
    /\ pc = "risk"
    /\ scored_df' = calculate_risk_score(df)
    /\ pc' = "zscores"
    /\ UNCHANGED <<files, df, analyzed_df, time_series_df, viz_data, error>>
    /\ UNCHANGED <<process_vars, app_vars>>
    /\ UNCHANGED fetch_vars

\* analyzed_df = calculate_z_scores(scored_df)
ZScoresStep ==
    /\ pc = "zscores"
    /\ analyzed_df' = calculate_z_scores(scored_df)
    /\ pc' = "time_series"
    /\ UNCHANGED <<files, df, scored_df, time_series_df, viz_data, error>>
    /\ UNCHANGED <<process_vars, app_vars>>
    /\ UNCHANGED fetch_vars

\* time_series_df = generate_time_series_data(analyzed_df)
TimeSeriesStep ==
    /\ pc = "time_series"
    /\ time_series_df' = generate_time_series_data(analyzed_df)
    /\ pc' = "viz"
    /\ UNCHANGED <<files, df, scored_df, analyzed_df, viz_data, error>>
    /\ UNCHANGED <<process_vars, app_vars>>
    /\ UNCHANGED fetch_vars

\* viz_data = prepare_visualization_data(analyzed_df)
VisualizationStep ==
    /\ pc = "viz"
    /\ viz_data' = prepare_visualization_data(analyzed_df)
    /\ pc' = "save_analyzed"
    /\ UNCHANGED <<files, df, scored_df, analyzed_df, time_series_df, error>>
    /\ UNCHANGED <<process_vars, app_vars>>
    /\ UNCHANGED fetch_vars

\* analyzed_df.to_csv(filepath): None has no to_csv, so the call raises
\* AttributeError out of analyze_asteroid_data
SaveAnalyzed ==
    /\ pc = "save_analyzed"
    /\ IF analyzed_df.isNone
       THEN /\ pc' = "raised"
            /\ error' = "AttributeError"
            /\ UNCHANGED files
       ELSE /\ files' = [files EXCEPT !.asteroids_analyzed = analyzed_df]
            /\ pc' = "save_time_series"
            /\ UNCHANGED error
    /\ UNCHANGED <<df, scored_df, analyzed_df, time_series_df, viz_data>>
    /\ UNCHANGED <<process_vars, app_vars>>
    /\ UNCHANGED fetch_vars

\* time_series_df.to_csv(time_series_filepath); return the three results
SaveTimeSeries ==
    /\ pc = "save_time_series"
    /\ IF time_series_df.isNone
       THEN /\ pc' = "raised"
            /\ error' = "AttributeError"
            /\ UNCHANGED files
       ELSE /\ files' = [files EXCEPT !.time_series_data = time_series_df]
            /\ pc' = "returned"
            /\ UNCHANGED error
    /\ UNCHANGED <<df, scored_df, analyzed_df, time_series_df, viz_data>>
    /\ UNCHANGED <<process_vars, app_vars>>
    /\ UNCHANGED fetch_vars

(* ------------------------- process_asteroid_data ---------------------- *)
\* raw_data = load_raw_data(input_file) reads DATA_DIR/asteroids_raw.json;
\* if not raw_data: return None, and load_data reports the failure
EnvFiles == IF data_dir = "data" THEN files ELSE alt_files

LoadRawData ==
    /\ pc = "load_raw"
    /\ raw_data' = EnvFiles.asteroids_raw
    /\ ran' = Append(ran, "process")
    /\ IF EnvFiles.asteroids_raw.isNone
       THEN /\ pc' = "done"
            /\ message' = "Failed to process asteroid data."
       ELSE /\ pc' = "flatten"
            /\ UNCHANGED message
    /\ UNCHANGED <<files, df, scored_df, analyzed_df, time_series_df,
                   viz_data, error, flattened_data, flat_df, cleaned_df,
                   data_dir, alt_files, calls>>
    /\ UNCHANGED fetch_vars

\* flattened_data = flatten_asteroid_data(raw_data); the ValueError of a
\* float() that fails leaves process_asteroid_data and load_data
FlattenStep ==
    /\ pc = "flatten"
    /\ flattened_data' = flatten_asteroid_data(raw_data)
    /\ IF flatten_asteroid_data(raw_data).raised
       THEN pc' = "raised" /\ error' = "ValueError"
       ELSE pc' = "create" /\ UNCHANGED error
    /\ UNCHANGED <<files, df, scored_df, analyzed_df, time_series_df,
                   viz_data, raw_data, flat_df, cleaned_df, app_vars>>
    /\ UNCHANGED fetch_vars

\* df = create_dataframe(flattened_data)
CreateDataFrameStep ==
    /\ pc = "create"
    /\ flat_df' = create_dataframe(flattened_data.rows)
    /\ pc' = "clean"
    /\ UNCHANGED <<files, df, scored_df, analyzed_df, time_series_df,
                   viz_data, error, raw_data, flattened_data, cleaned_df,
                   app_vars>>
    /\ UNCHANGED fetch_vars

\* cleaned_df = clean_dataframe(df), on a copy of df
CleanStep ==
    /\ pc = "clean"
    /\ cleaned_df' = clean_dataframe(flat_df)
    /\ pc' = "save_clean"
    /\ UNCHANGED <<files, df, scored_df, analyzed_df, time_series_df,
                   viz_data, error, raw_data, flattened_data, flat_df,
                   app_vars>>
    /\ UNCHANGED fetch_vars

\* save_clean_data(cleaned_df, output_file) writes
\* DATA_DIR/asteroids_clean.csv unless the table is None or empty;
\* process_asteroid_data returns cleaned_df, and load_data reports the
\* failure for None and calls analyze_asteroid_data() otherwise
SaveCleanData ==
    /\ pc = "save_clean"
    /\ IF cleaned_df.isNone \/ empty(cleaned_df)
       THEN UNCHANGED <<files, alt_files>>
       ELSE IF data_dir = "data"
       THEN /\ files' = [files EXCEPT !.asteroids_clean = cleaned_df]
            /\ UNCHANGED alt_files
       ELSE /\ alt_files' = [alt_files EXCEPT !.asteroids_clean = cleaned_df]
            /\ UNCHANGED files
    /\ IF cleaned_df.isNone
       THEN /\ pc' = "done"
            /\ message' = "Failed to process asteroid data."
            /\ UNCHANGED ran
       ELSE /\ pc' = "load"
            /\ ran' = Append(ran, "analyze")
            /\ UNCHANGED message
    /\ UNCHANGED <<df, scored_df, analyzed_df, time_series_df, viz_data,
                   error, process_vars, data_dir, calls>>
    /\ UNCHANGED fetch_vars

(* ------------------------------- inputs ------------------------------- *)
CleanRow(t, d, v, m, h) ==
    [date |-> t, diameter_mean_km |-> R(d), relative_velocity_km_s |-> R(v),
     miss_distance_km |-> R(m), is_potentially_hazardous |-> h]

ScoredRow(t, d, v, m, h, tenths) ==
    [risk_score |-> Rat(tenths, 10), risk_level |-> cut(Rat(tenths, 10))]
        @@ CleanRow(t, d, v, m, h)

\* the non-decreasing sequences of exactly len codes in lo..(count - 1)
RECURSIVE CodesFrom(_, _, _)
CodesFrom(count, len, lo) ==
    IF len = 0 THEN {<<>>}
    ELSE UNION {{<<c>> \o t : t \in CodesFrom(count, len - 1, c)} :
                c \in lo..(count - 1)}

\* the row lists of at most maxLen rows over a catalogue of count rows
Codes(count, maxLen) == UNION {CodesFrom(count, len, 0) : len \in 0..maxLen}

\* cleaned rows of the pipeline: a date in 1..MaxDate, each of the three
\* signals 0 or MaxValue, and the hazard flag
RecordCount == MaxDate * 16

RecordAt(c) ==
    LET level == <<0, MaxValue>> IN
    CleanRow(1 + (c \div 16), level[1 + ((c \div 8) % 2)],
             level[1 + ((c \div 4) % 2)], level[1 + ((c \div 2) % 2)],
             c % 2 = 1)

\* cleaned rows of one day for the risk scorer: diameter and velocity 0 or
\* MaxSignal, miss distance 0, 1 or MaxSignal, and the hazard flag
RiskRecordCount == 2 * 2 * 3 * 2

RiskRecordAt(c) ==
    LET level == <<0, MaxSignal, 1>> IN
    CleanRow(1, level[1 + (c \div 12)], level[1 + ((c \div 6) % 2)],
             level[1 + ((c \div 2) % 3)], c % 2 = 1)

\* scored rows that differ from the all-zero row in at most one of the four
\* metrics: code 0 is the all-zero row, codes 1..MaxZValue set the diameter
\* to the code, and the last three codes set the miss distance, the
\* velocity or the risk score (in tenths) to 1
ZRecordCount == 1 + MaxZValue + 3

ZRecordAt(c) ==
    LET one(j) == IF c = MaxZValue + j THEN 1 ELSE 0
    IN  ScoredRow(1, IF c <= MaxZValue THEN c ELSE 0, one(2), one(1), FALSE,
                  one(3))

\* analyzed rows: a date in 1..MaxDay and one of two kinds of record, a
\* small one (size 0) with risk score 0.6 or a large one (size MaxSize) with
\* risk score MaxRiskTenths / 10; the size s sets the three signals to the
\* distinct values s, s + 2 and 9 - s
TSRecordCount == MaxDay * 2

TSRecordAt(c) ==
    LET s == <<0, MaxSize>>[1 + (c % 2)]
    IN  ScoredRow(1 + (c \div 2), s, s + 2, 9 - s, FALSE,
                  <<6, MaxRiskTenths>>[1 + (c % 2)])

\* the three records of the end-to-end scenario, all on day 1: diameters
\* 0.1, 0.5 and 1.0 km, velocities 5, 15 and 30 km/s, miss distances 1e6,
\* 5e6 and 9e6 km; each with either hazard flag
ScenarioRecordCount == 3 * 2

ScenarioRecordAt(c) ==
    LET k == 1 + (c \div 2)
    IN  [date |-> 1,
         diameter_mean_km |-> <<Rat(1, 10), Rat(5, 10), R(1)>>[k],
         relative_velocity_km_s |-> <<R(5), R(15), R(30)>>[k],
         miss_distance_km |-> <<R(1000000), R(5000000), R(9000000)>>[k],
         is_potentially_hazardous |-> c % 2 = 1]

\* one asteroid entry of a raw document
RawEntry(date, hazard, has_d, d_min, d_max, has_a, has_m, km, has_v, km_h) ==
    [date |-> date,
     is_potentially_hazardous_asteroid |-> hazard,
     estimated_diameter_kilometers |-> has_d,
     estimated_diameter_min |-> d_min,
     estimated_diameter_max |-> d_max,
     close_approach_data |-> has_a,
     has_miss_distance |-> has_m,
     kilometers |-> km,
     has_relative_velocity |-> has_v,
     kilometers_per_hour |-> km_h]

\* asteroid entries: a date in 1..MaxRawDate; one of five diameter shapes
\* (no estimated_diameter, min absent, min 0, max absent, both present); one
\* of five approach shapes (no close_approach_data, both values numbers,
\* miss distance not a number, velocity not a number, 'kilometers' and
\* 'relative_velocity' absent); the hazard flag false, true or null
RawEntryCount == MaxRawDate * 25

RawEntryAt(c) ==
    LET shape == 1 + ((c \div 5) % 5)
        approach == 1 + (c % 5)
    IN  RawEntry(1 + (c \div 25), <<"False", "True", "None">>[1 + (c % 3)],
                 shape > 1,
                 <<NaN, NaN, R(0), R(1), R(1)>>[shape],
                 <<NaN, R(MaxDiameter), R(MaxDiameter), NaN,
                   R(MaxDiameter)>>[shape],
                 approach > 1,
                 TRUE,
                 <<NaN, R(5), Text, R(5), NaN>>[approach],
                 approach < 5,
                 <<NaN, R(7200), R(7200), Text, NaN>>[approach])

\* flat records for the cleaner: the diameter columns missing, not a number,
\* or built on 0, 1 or MaxCell (the mean missing for 0, as the normalizer
\* leaves it); the approach columns missing or built on 0 or MaxCell; the
\* hazard flag false, true or null
FlatRecordCount == 5 * 3

FlatRecordAt(c) ==
    LET d == <<NaN, Text, R(0), R(1), R(MaxCell)>>[1 + (c % 5)]
        a == <<NaN, R(0), R(MaxCell)>>[1 + (c % 3)]
        number(x) == x.d > 0
    IN  [date |-> 1,
         is_potentially_hazardous |-> <<"False", "True", "None">>[1 + (c \div 5)],
         diameter_min_km |-> d,
         diameter_max_km |-> IF number(d) THEN Add(d, R(1)) ELSE d,
         diameter_mean_km |->
             IF number(d) THEN IF truthy(d) THEN Add(d, Rat(1, 2)) ELSE NaN
             ELSE d,
         miss_distance_km |-> a,
         relative_velocity_km_h |-> Mul(a, R(3600)),
         relative_velocity_km_s |-> a]

NoFiles ==
    [asteroids_raw |-> NoData, asteroids_clean |-> None,
     asteroids_analyzed |-> None, time_series_data |-> None]

\* all_data as line 73 creates it: no date, and none of the other keys of
\* a response
NoChunks == [near_earth_objects |-> {}, other_keys |-> FALSE]

\* the values of the variables of fetch_data_in_chunks where it is not
\* modelled
NotFetching ==
    /\ start = 0
    /\ end = 0
    /\ chunk_size = 7
    /\ current_start = 0
    /\ all_data = NoChunks
    /\ requests = <<>>

\* the values of the new variables where process_asteroid_data and load_data
\* have not run
Idle ==
    /\ raw_data = NoData
    /\ flattened_data = [raised |-> FALSE, rows |-> <<>>]
    /\ flat_df = None
    /\ cleaned_df = None
    /\ data_dir = "data"
    /\ alt_files = NoFiles
    /\ ran = <<>>
    /\ calls = 1
    /\ message = "none"

\* what fetch_data_in_chunks can return: a document without entries (every
\* request failed), a document of three entries one of which lacks
\* estimated_diameter_min, or a document with a miss distance that is not a
\* number
FetchedEntries ==
    <<RawEntry(1, "False", TRUE, R(1), R(3), TRUE, TRUE, R(9), TRUE, R(3600)),
      RawEntry(1, "True", TRUE, NaN, R(4), TRUE, TRUE, R(5), TRUE, R(7200)),
      RawEntry(2, "False", TRUE, R(3), R(5), TRUE, TRUE, R(1), TRUE, R(10800))>>

ApiData ==
    {RawData(<<>>),
     RawData(FetchedEntries),
     RawData(<<FetchedEntries[1],
               RawEntry(2, "False", TRUE, R(3), R(5), TRUE, TRUE, Text, TRUE,
                        R(10800))>>)}

\* files left by an earlier run
StaleRaw ==
    RawData(<<RawEntry(1, "False", TRUE, R(1), R(2), TRUE, TRUE, R(4), TRUE,
                       R(3600)),
              RawEntry(3, "True", TRUE, R(2), R(4), TRUE, TRUE, R(2), TRUE,
                       R(7200))>>)

StaleClean ==
    clean_dataframe(create_dataframe(flatten_asteroid_data(StaleRaw).rows))

StaleAnalyzed == calculate_z_scores(calculate_risk_score(StaleClean))

StaleTimeSeries == generate_time_series_data(StaleAnalyzed)

\* the contents a data directory can have when load_data is called
FileStates ==
    [asteroids_raw : {NoData, StaleRaw},
     asteroids_clean : {None, StaleClean},
     asteroids_analyzed : {None, StaleAnalyzed},
     time_series_data : {None, StaleTimeSeries}]

\* the settings of DATA_DIR: unset or 'data', or another directory
DataDirs == {"data", "alt"}

(* ------------------------------- load_data ---------------------------- *)
\* variant of needs_pipeline that asks for both tables to be absent
needs_pipeline_both(analyzed, time_series) ==
    analyzed.isNone /\ time_series.isNone

\* not os.path.exists(analyzed_path) or not os.path.exists(time_series_path)
needs_pipeline(analyzed, time_series) ==
    analyzed.isNone \/ time_series.isNone

\* load_data up to its branch: the pipeline when a table is absent from
\* DATA_DIR, else both tables are read and returned
LoadDataCheck ==
    /\ pc = "load_data"
    /\ IF needs_pipeline(EnvFiles.asteroids_analyzed,
                         EnvFiles.time_series_data)
       THEN /\ pc' = "fetch"
            /\ UNCHANGED <<analyzed_df, time_series_df>>
       ELSE /\ analyzed_df' = EnvFiles.asteroids_analyzed
            /\ time_series_df' = EnvFiles.time_series_data
            /\ pc' = "done"
    /\ UNCHANGED <<files, df, scored_df, viz_data, error, process_vars,
                   app_vars>>
    /\ UNCHANGED fetch_vars

\* raw_data = fetch_and_save_asteroid_data(): the fetched document is saved
\* as data/asteroids_raw.json and returned; None is reported as a failure
FetchStep ==
    /\ pc = "fetch"
    /\ \E data \in ApiData :
          /\ raw_data' = data
          /\ files' = [files EXCEPT !.asteroids_raw = data]
          /\ IF data.isNone
             THEN /\ pc' = "done"
                  /\ message' = "Failed to fetch asteroid data."
             ELSE /\ pc' = "load_raw"
                  /\ UNCHANGED message
    /\ ran' = Append(ran, "fetch")
    /\ UNCHANGED <<df, scored_df, analyzed_df, time_series_df, viz_data,
                   error, flattened_data, flat_df, cleaned_df, data_dir,
                   alt_files, calls>>
    /\ UNCHANGED fetch_vars

\* analyze_asteroid_data has returned: None is reported as a failure, a
\* table is followed by the success message and the return of both tables
LoadDataReturn ==
    /\ pc = "returned"
    /\ message' = IF analyzed_df.isNone
                  THEN "Failed to analyze asteroid data."
                  ELSE "Data pipeline completed successfully!"
    /\ pc' = "done"
    /\ UNCHANGED <<files, df, scored_df, analyzed_df, time_series_df,
                   viz_data, error, process_vars, data_dir, alt_files, ran,
                   calls>>
    /\ UNCHANGED fetch_vars

\* the next run of the script calls load_data again
Rerun ==
    /\ pc = "done"
    /\ calls < MaxCalls
    /\ calls' = calls + 1
    /\ pc' = "load_data"
    /\ df' = None
    /\ scored_df' = None
    /\ analyzed_df' = None
    /\ time_series_df' = None
    /\ viz_data' = "None"
    /\ raw_data' = NoData
    /\ flattened_data' = [raised |-> FALSE, rows |-> <<>>]
    /\ flat_df' = None
    /\ cleaned_df' = None
    /\ ran' = <<>>
    /\ message' = "none"
    /\ UNCHANGED <<files, alt_files, data_dir, error>>
    /\ UNCHANGED fetch_vars

(* -------------------------- fetch_data_in_chunks ---------------------- *)
\* variant of chunk_end that adds chunk_size days instead of chunk_size - 1
chunk_end_wide(from, to, size) ==
    from + (IF size < to - from THEN size ELSE to - from)

\* current_end: current_start + min(chunk_size - 1, (end - current_start).days)
chunk_end(from, to, size) ==
    from + (IF size - 1 < to - from THEN size - 1 ELSE to - from)

\* one turn of the while loop: the request for current_start..current_end;
\* a response with 'near_earth_objects' adds its dates to all_data (and, for
\* the first chunk, its other keys), a failed request (None) adds nothing;
\* then current_start moves to the day after current_end
FetchChunk ==
    /\ pc = "chunks"
    /\ current_start <= end
    /\ requests' = Append(requests,
                          [start_date |-> current_start,
                           end_date |-> chunk_end(current_start, end, chunk_size)])
    /\ \E ok \in BOOLEAN :
          all_data' =
              IF ok
              THEN [near_earth_objects |->
                        all_data.near_earth_objects
                            \cup (current_start
                                    ..chunk_end(current_start, end, chunk_size)),
                    other_keys |-> all_data.other_keys \/ current_start = start]
              ELSE all_data
    /\ current_start' = chunk_end(current_start, end, chunk_size) + 1
    /\ UNCHANGED <<files, df, scored_df, analyzed_df, time_series_df,
                   viz_data, pc, error, process_vars, app_vars, start, end,
                   chunk_size>>

\* the loop test fails: return all_data
FetchReturn ==
    /\ pc = "chunks"
    /\ ~(current_start <= end)
    /\ pc' = "fetched"
    /\ UNCHANGED <<files, df, scored_df, analyzed_df, time_series_df,
                   viz_data, error, process_vars, app_vars, fetch_vars>>

(* --------------------------- specifications --------------------------- *)
\* analyze_asteroid_data from its first line, the cleaned file absent or
\* holding any table of at most MaxRows rows
Init ==
    /\ \/ files = NoFiles
       \/ \E codes \in Codes(RecordCount, MaxRows) :
              files = [NoFiles EXCEPT !.asteroids_clean =
                          DataFrame([i \in DOMAIN codes |-> RecordAt(codes[i])])]
    /\ df = None
    /\ scored_df = None
    /\ analyzed_df = None
    /\ time_series_df = None
    /\ viz_data = "None"
    /\ pc = "load"
    /\ error = "none"
    /\ Idle
    /\ NotFetching

Next ==
    \/ LoadCleanData
    \/ RiskScoreStep
    \/ ZScoresStep
    \/ TimeSeriesStep
    \/ VisualizationStep
    \/ SaveAnalyzed
    \/ SaveTimeSeries

Spec == Init /\ [][Next]_vars

\* calculate_risk_score about to run on a cleaned table
InitRisk ==
    /\ \E codes \in Codes(RiskRecordCount, MaxBatch) :
          df = DataFrame([i \in DOMAIN codes |-> RiskRecordAt(codes[i])])
    /\ files = [NoFiles EXCEPT !.asteroids_clean = df]
    /\ scored_df = None
    /\ analyzed_df = None
    /\ time_series_df = None
    /\ viz_data = "None"
    /\ pc = "risk"
    /\ error = "none"
    /\ Idle
    /\ NotFetching

NextRisk == RiskScoreStep

SpecRisk == InitRisk /\ [][NextRisk]_vars

\* calculate_z_scores about to run on a scored table
InitZ ==
    /\ \E codes \in Codes(ZRecordCount, MaxZBatch) :
          scored_df = DataFrame([i \in DOMAIN codes |-> ZRecordAt(codes[i])])
    /\ files = NoFiles
    /\ df = None
    /\ analyzed_df = None
    /\ time_series_df = None
    /\ viz_data = "None"
    /\ pc = "zscores"
    /\ error = "none"
    /\ Idle
    /\ NotFetching

NextZ == ZScoresStep

SpecZ == InitZ /\ [][NextZ]_vars

\* generate_time_series_data about to run on an analyzed table
InitTS ==
    /\ \E codes \in Codes(TSRecordCount, MaxTSRows) :
          analyzed_df = DataFrame([i \in DOMAIN codes |-> TSRecordAt(codes[i])])
    /\ files = NoFiles
    /\ df = None
    /\ scored_df = None
    /\ time_series_df = None
    /\ viz_data = "None"
    /\ pc = "time_series"
    /\ error = "none"
    /\ Idle
    /\ NotFetching

NextTS == TimeSeriesStep

SpecTS == InitTS /\ [][NextTS]_vars

\* calculate_risk_score about to run on a batch of scenario records
InitScenario ==
    /\ \E codes \in Codes(ScenarioRecordCount, MaxScenarioRows) :
          df = DataFrame([i \in DOMAIN codes |-> ScenarioRecordAt(codes[i])])
    /\ files = [NoFiles EXCEPT !.asteroids_clean = df]
    /\ scored_df = None
    /\ analyzed_df = None
    /\ time_series_df = None
    /\ viz_data = "None"
    /\ pc = "risk"
    /\ error = "none"
    /\ Idle
    /\ NotFetching

NextScenario == RiskScoreStep

SpecScenario == InitScenario /\ [][NextScenario]_vars

\* flatten_asteroid_data about to run on no document, a document without
\* 'near_earth_objects', or a document of at most MaxEntries entries
InitFlatten ==
    /\ \/ raw_data = NoData
       \/ raw_data = [isNone |-> FALSE, neo |-> FALSE, rows |-> <<>>]
       \/ \E codes \in Codes(RawEntryCount, MaxEntries) :
              raw_data = RawData([i \in DOMAIN codes |-> RawEntryAt(codes[i])])
    /\ files = NoFiles
    /\ df = None
    /\ scored_df = None
    /\ analyzed_df = None
    /\ time_series_df = None
    /\ viz_data = "None"
    /\ pc = "flatten"
    /\ error = "none"
    /\ flattened_data = [raised |-> FALSE, rows |-> <<>>]
    /\ flat_df = None
    /\ cleaned_df = None
    /\ data_dir = "data"
    /\ alt_files = NoFiles
    /\ ran = <<>>
    /\ calls = 1
    /\ message = "none"
    /\ NotFetching

NextFlatten == FlattenStep

SpecFlatten == InitFlatten /\ [][NextFlatten]_vars

\* clean_dataframe about to run on None or a table of at most MaxFlatRows
\* flat records
InitClean ==
    /\ \/ flat_df = None
       \/ \E codes \in Codes(FlatRecordCount, MaxFlatRows) :
              flat_df = DataFrame([i \in DOMAIN codes |-> FlatRecordAt(codes[i])])
    /\ files = NoFiles
    /\ df = None
    /\ scored_df = None
    /\ analyzed_df = None
    /\ time_series_df = None
    /\ viz_data = "None"
    /\ pc = "clean"
    /\ error = "none"
    /\ raw_data = NoData
    /\ flattened_data = [raised |-> FALSE, rows |-> <<>>]
    /\ cleaned_df = None
    /\ data_dir = "data"
    /\ alt_files = NoFiles
    /\ ran = <<>>
    /\ calls = 1
    /\ message = "none"
    /\ NotFetching

NextClean == CleanStep

SpecClean == InitClean /\ [][NextClean]_vars

\* load_data called with DATA_DIR unset or set, on any contents of the
\* directory 'data' and of the directory DATA_DIR names
InitLoadData ==
    /\ data_dir \in DataDirs
    /\ files \in FileStates
    /\ alt_files \in (IF data_dir = "data" THEN {NoFiles} ELSE FileStates)
    /\ df = None
    /\ scored_df = None
    /\ analyzed_df = None
    /\ time_series_df = None
    /\ viz_data = "None"
    /\ pc = "load_data"
    /\ error = "none"
    /\ raw_data = NoData
    /\ flattened_data = [raised |-> FALSE, rows |-> <<>>]
    /\ flat_df = None
    /\ cleaned_df = None
    /\ ran = <<>>
    /\ calls = 1
    /\ message = "none"
    /\ NotFetching

NextLoadData ==
    \/ LoadDataCheck
    \/ FetchStep
    \/ LoadRawData
    \/ FlattenStep
    \/ CreateDataFrameStep
    \/ CleanStep
    \/ SaveCleanData
    \/ LoadCleanData
    \/ RiskScoreStep
    \/ ZScoresStep
    \/ TimeSeriesStep
    \/ VisualizationStep
    \/ SaveAnalyzed
    \/ SaveTimeSeries
    \/ LoadDataReturn
    \/ Rerun

SpecLoadData == InitLoadData /\ [][NextLoadData]_vars

\* fetch_data_in_chunks at its loop, for a range of at most MaxFetchDays
\* days that begins on one of the first MaxStart days and a chunk size of at
\* least 1
InitFetch ==
    /\ start \in 1..MaxStart
    /\ end \in start..(start + MaxFetchDays - 1)
    /\ chunk_size \in 1..MaxChunkSize
    /\ current_start = start
    /\ all_data = NoChunks
    /\ requests = <<>>
    /\ files = NoFiles
    /\ df = None
    /\ scored_df = None
    /\ analyzed_df = None
    /\ time_series_df = None
    /\ viz_data = "None"
    /\ pc = "chunks"
    /\ error = "none"
    /\ Idle

NextFetch ==
    \/ FetchChunk
    \/ FetchReturn

SpecFetch == InitFetch /\ [][NextFetch]_vars

(* ------------------------------ properties ---------------------------- *)
\* a column takes at least two distinct values
Varies(rows, name) ==
    \E i, j \in DOMAIN rows : rows[i][name] # rows[j][name]

\* no signal of the risk scorer has a zero range
NonDegenerate(rows) ==
    /\ Varies(rows, "diameter_mean_km")
    /\ Varies(rows, "relative_velocity_km_s")
    /\ Varies(rows, "miss_distance_km")

\* calculate_risk_score has returned a table for the non-empty table df
Scored == pc = "zscores" /\ ~df.isNone /\ ~empty(df)

\* The raw composite of row i of a non-degenerate table as an integer
\* fraction RawNum / RawDen, written out from the three signals
Range(rows, name) == ColMax(Column(rows, name)).n - ColMin(Column(rows, name)).n

RawDen(rows) ==
    10 * Range(rows, "diameter_mean_km") * Range(rows, "relative_velocity_km_s")
       * Range(rows, "miss_distance_km")

RawNum(rows, i) ==
    LET rd == Range(rows, "diameter_mean_km")
        rv == Range(rows, "relative_velocity_km_s")
        rm == Range(rows, "miss_distance_km")
    IN  4 * (rows[i].diameter_mean_km.n
                - ColMin(Column(rows, "diameter_mean_km")).n) * rv * rm
        + 3 * (rows[i].relative_velocity_km_s.n
                - ColMin(Column(rows, "relative_velocity_km_s")).n) * rd * rm
        + 3 * (ColMax(Column(rows, "miss_distance_km")).n
                - rows[i].miss_distance_km.n) * rd * rv

\* C1: for every non-empty batch in which each of the three signals takes at
\* least two distinct values, every record's risk_score is a number with
\* 0 <= risk_score <= 1, whatever the hazard flags are.
C1_RiskScoreInUnitInterval ==
    (Scored /\ NonDegenerate(df.rows)) =>
        \A i \in DOMAIN scored_df.rows :
            /\ Le(R(0), scored_df.rows[i].risk_score)
            /\ Le(scored_df.rows[i].risk_score, R(1))

\* C1 witness: a hazardous record whose raw composite plus the bonus exceeds
\* 1 has been scored, in a non-degenerate batch
C1_Witness ==
    /\ Scored
    /\ NonDegenerate(df.rows)
    /\ \E i \in DOMAIN df.rows :
          /\ df.rows[i].is_potentially_hazardous
          /\ 10 * RawNum(df.rows, i) > 8 * RawDen(df.rows)
          /\ scored_df.rows[i].risk_score = R(1)

\* C2 as stated: the bins are closed on the left and open on the right, so a
\* score with b <= score < b' for consecutive boundaries b, b' (b one of
\* 0.2, 0.4, 0.6, 0.8) has the label of the bin that starts at b; a score of
\* exactly 0.6 is High.
C2_LeftClosedBins ==
    Scored =>
        \A i \in DOMAIN scored_df.rows : \A k \in 2..Len(labels) :
            (/\ Le(bins[k], scored_df.rows[i].risk_score)
             /\ Lt(scored_df.rows[i].risk_score, bins[k + 1]))
                => scored_df.rows[i].risk_level = labels[k]

\* C2 amended: the bins are open on the left and closed on the right, so a
\* score with b < score <= b' for consecutive boundaries b, b' has the label
\* of the bin that ends at b'; a score of exactly 0.6 is Medium.
C2_RightClosedBins ==
    Scored =>
        \A i \in DOMAIN scored_df.rows : \A k \in 1..Len(labels) :
            (/\ Lt(bins[k], scored_df.rows[i].risk_score)
             /\ Le(scored_df.rows[i].risk_score, bins[k + 1]))
                => scored_df.rows[i].risk_level = labels[k]

\* C2 witness: a record with risk_score exactly 0.6 has been binned, and so
\* has a record with a score strictly between 0.6 and 0.8
C2_Witness ==
    /\ Scored
    /\ \E i \in DOMAIN scored_df.rows :
          scored_df.rows[i].risk_score = Rat(6, 10)
    /\ \E i \in DOMAIN scored_df.rows :
          /\ Lt(Rat(6, 10), scored_df.rows[i].risk_score)
          /\ Lt(scored_df.rows[i].risk_score, Rat(8, 10))

\* C3: every record with a risk_score in [0, 1] has one of the five risk
\* levels, never a missing one; a score of exactly 0 is Very Low.
C3_RiskLevelNeverMissing ==
    Scored =>
        \A i \in DOMAIN scored_df.rows :
            (/\ Le(R(0), scored_df.rows[i].risk_score)
             /\ Le(scored_df.rows[i].risk_score, R(1)))
                => /\ scored_df.rows[i].risk_level
                        \in {labels[k] : k \in DOMAIN labels}
                   /\ scored_df.rows[i].risk_score = R(0)
                        => scored_df.rows[i].risk_level = "Very Low"

\* C4: when one of the three signals has the same value in every record of a
\* non-empty batch, every record still gets a defined risk_score (a number,
\* not NaN).
C4_DegenerateRangeScoreDefined ==
    (Scored /\ ~NonDegenerate(df.rows)) =>
        \A i \in DOMAIN scored_df.rows : ~IsNaN(scored_df.rows[i].risk_score)

\* C9: in a non-degenerate batch every record's risk_score is
\* min(1, raw composite + (0.2 if hazardous else 0)): the bonus is added
\* before the clip, and a non-hazardous record keeps its raw composite.
C9_HazardBonusBeforeClip ==
    (Scored /\ NonDegenerate(df.rows)) =>
        \A i \in DOMAIN df.rows :
            LET den == RawDen(df.rows)
                sum == RawNum(df.rows, i)
                        + (IF df.rows[i].is_potentially_hazardous
                           THEN 2 * (den \div 10) ELSE 0)
            IN  scored_df.rows[i].risk_score
                    = Rat(IF sum > den THEN den ELSE sum, den)

\* C9 witness: a hazardous record with raw composite exactly 0.9 has been
\* scored 1, next to a non-hazardous record
C9_Witness ==
    /\ Scored
    /\ NonDegenerate(df.rows)
    /\ \E i \in DOMAIN df.rows :
          /\ df.rows[i].is_potentially_hazardous
          /\ 10 * RawNum(df.rows, i) = 9 * RawDen(df.rows)
          /\ scored_df.rows[i].risk_score = R(1)
    /\ \E i \in DOMAIN df.rows : ~df.rows[i].is_potentially_hazardous

\* C5: on an empty cleaned table the run fails with EmptyBatchError:
\* calculate_risk_score does not return normally, the error reaches the
\* caller of analyze_asteroid_data, and neither table is written.
C5_EmptyBatchRaises ==
    (~df.isNone /\ empty(df) /\ pc \notin {"load", "risk"}) =>
        /\ pc = "raised"
        /\ error = "EmptyBatchError"
        /\ files.asteroids_analyzed.isNone
        /\ files.time_series_data.isNone

\* C6: on a batch of exactly one record calculate_z_scores fails with
\* InsufficientDataError: no table with z-scores and is_anomaly is returned
\* and analyze_asteroid_data writes no analyzed table.
C6_SingleRecordRejected ==
    (~df.isNone /\ Len(df.rows) = 1 /\ pc \notin {"load", "risk", "zscores"}) =>
        /\ pc = "raised"
        /\ error = "InsufficientDataError"
        /\ analyzed_df.isNone
        /\ files.asteroids_analyzed.isNone

\* calculate_z_scores has returned a table for a batch of at least 2 records
Analyzed == pc = "time_series" /\ ~scored_df.isNone /\ Len(scored_df.rows) >= 2

\* the z-score that an analyzed row holds for metric columns[k]
ZField(row, k) ==
    CASE k = 1 -> row.diameter_mean_km_zscore
      [] k = 2 -> row.miss_distance_km_zscore
      [] k = 3 -> row.relative_velocity_km_s_zscore
      [] k = 4 -> row.risk_score_zscore

\* C7: in a batch of at least 2 records, a metric whose values are all
\* identical has z-score 0 in every record and flags no record.
C7_ConstantColumnZScoreZero ==
    Analyzed =>
        \A k \in DOMAIN columns :
            ~Varies(scored_df.rows, columns[k]) =>
                \A i \in DOMAIN analyzed_df.rows :
                    /\ ZField(analyzed_df.rows[i], k) = [sgn |-> 0, sq |-> R(0)]
                    /\ ~abs_gt_2(ZField(analyzed_df.rows[i], k))

\* The z-score test written out in integers.  With the values of a column
\* scaled to tenths, n the number of rows, S their sum and
\* dev(j) = n * x[j] - S, the sample standard deviation is
\* sqrt(sum of dev(j)^2 / (n - 1)) / n and z[i] = (dev(i) / n) / std, so
\* abs(z[i]) > 2 iff (n - 1) * dev(i)^2 > 4 * (sum of dev(j)^2).
Tenths(x) == (x.n * 10) \div x.d

RECURSIVE IntSum(_, _)
IntSum(f, k) == IF k = 0 THEN 0 ELSE IntSum(f, k - 1) + f[k]

Deviation(rows, name) ==
    LET x == [j \in DOMAIN rows |-> Tenths(rows[j][name])]
    IN  [j \in DOMAIN rows |-> Len(rows) * x[j] - IntSum(x, Len(rows))]

SquaredDeviations(rows, name) ==
    LET dev == Deviation(rows, name)
    IN  IntSum([j \in DOMAIN rows |-> dev[j] * dev[j]], Len(rows))

ZAboveTwo(rows, name, i) ==
    (Len(rows) - 1) * Deviation(rows, name)[i] * Deviation(rows, name)[i]
        > 4 * SquaredDeviations(rows, name)

ZExactlyTwo(rows, name, i) ==
    /\ SquaredDeviations(rows, name) > 0
    /\ (Len(rows) - 1) * Deviation(rows, name)[i] * Deviation(rows, name)[i]
        = 4 * SquaredDeviations(rows, name)

\* C8: in a batch of at least 2 records, is_anomaly is true for a record iff
\* at least one of its four z-scores (value minus batch mean over the sample
\* standard deviation) has absolute value strictly greater than 2.
C8_AnomalyIffAnyZScoreAbove2 ==
    Analyzed =>
        \A i \in DOMAIN analyzed_df.rows :
            analyzed_df.rows[i].is_anomaly
                <=> \E k \in DOMAIN columns :
                        ZAboveTwo(scored_df.rows, columns[k], i)

\* C8 witness: a record one of whose z-scores is exactly 2 or -2 has been
\* analyzed and is not flagged
C8_Witness ==
    /\ Analyzed
    /\ \E i \in DOMAIN analyzed_df.rows : \E k \in DOMAIN columns :
          /\ ZExactlyTwo(scored_df.rows, columns[k], i)
          /\ ~analyzed_df.rows[i].is_anomaly

\* generate_time_series_data has returned a table for a non-empty batch
Aggregated == pc = "viz" /\ ~analyzed_df.isNone /\ ~empty(analyzed_df)

RecordDates == {analyzed_df.rows[i].date : i \in DOMAIN analyzed_df.rows}

\* C10: for a non-empty analyzed batch the daily table has exactly one row
\* for each calendar day from the earliest to the latest record date, in
\* ascending order, and the row of a day without records has
\* asteroid_count = 0.
C10_DailyTableDense ==
    Aggregated =>
        LET first == CHOOSE t \in RecordDates : \A u \in RecordDates : t <= u
            last == CHOOSE t \in RecordDates : \A u \in RecordDates : u <= t
            ts == time_series_df.rows
        IN  /\ Len(ts) = last - first + 1
            /\ \A k \in DOMAIN ts : ts[k].date = first + k - 1
            /\ \A k \in DOMAIN ts :
                  ts[k].date \notin RecordDates => ts[k].asteroid_count = R(0)

\* C10 witness: the daily table of a batch with a day without records
\* strictly inside its span has been built
C10_Witness ==
    /\ Aggregated
    /\ \E k \in DOMAIN time_series_df.rows :
          /\ time_series_df.rows[k].date \notin RecordDates
          /\ time_series_df.rows[k].asteroid_count = R(0)

\* the rows of the analyzed batch that fall on a day
RecordsOn(day) ==
    {i \in DOMAIN analyzed_df.rows : analyzed_df.rows[i].date = day}

\* the sum over one day's records of a metric, in tenths
DaySum(day, name) ==
    IntSum([i \in DOMAIN analyzed_df.rows |->
               IF i \in RecordsOn(day)
               THEN Tenths(analyzed_df.rows[i][name]) ELSE 0],
           Len(analyzed_df.rows))

\* C11: for a day with at least one record each of avg_diameter_km,
\* avg_velocity_km_s, avg_miss_distance_km and avg_risk_score is the mean of
\* that field over exactly that day's records; for a day with no records the
\* four columns are undefined (NaN, never 0) while asteroid_count and
\* high_risk_count are 0.
C11_DailyMeansAndGaps ==
    Aggregated =>
        \A k \in DOMAIN time_series_df.rows :
            LET row == time_series_df.rows[k]
                n == Cardinality(RecordsOn(row.date))
            IN  IF n > 0
                THEN /\ row.avg_diameter_km
                          = Rat(DaySum(row.date, "diameter_mean_km"), 10 * n)
                     /\ row.avg_velocity_km_s
                          = Rat(DaySum(row.date, "relative_velocity_km_s"), 10 * n)
                     /\ row.avg_miss_distance_km
                          = Rat(DaySum(row.date, "miss_distance_km"), 10 * n)
                     /\ row.avg_risk_score
                          = Rat(DaySum(row.date, "risk_score"), 10 * n)
                ELSE /\ IsNaN(row.avg_diameter_km)
                     /\ IsNaN(row.avg_velocity_km_s)
                     /\ IsNaN(row.avg_miss_distance_km)
                     /\ IsNaN(row.avg_risk_score)
                     /\ row.asteroid_count = R(0)
                     /\ row.high_risk_count = R(0)

\* C11 witness: the daily table holds a day with two records of different
\* diameters and a day without records
C11_Witness ==
    /\ Aggregated
    /\ \E k \in DOMAIN time_series_df.rows :
          /\ \E i, j \in RecordsOn(time_series_df.rows[k].date) :
                analyzed_df.rows[i].diameter_mean_km
                    # analyzed_df.rows[j].diameter_mean_km
          /\ ~IsNaN(time_series_df.rows[k].avg_diameter_km)
    /\ \E k \in DOMAIN time_series_df.rows :
          /\ RecordsOn(time_series_df.rows[k].date) = {}
          /\ IsNaN(time_series_df.rows[k].avg_risk_score)

\* the records of a day whose risk_score is strictly greater than 0.6
HighRiskOn(day) ==
    {i \in RecordsOn(day) :
        10 * analyzed_df.rows[i].risk_score.n
            > 6 * analyzed_df.rows[i].risk_score.d}

\* C12: for every day of the daily table high_risk_count is the number of
\* that day's records whose risk_score is strictly greater than 0.6 (exactly
\* 0.6 is not counted); also on days before the first or after the last
\* high-risk record and when the batch has no high-risk record, where it
\* is 0.
C12_HighRiskCountStrict ==
    Aggregated =>
        \A k \in DOMAIN time_series_df.rows :
            time_series_df.rows[k].high_risk_count
                = R(Cardinality(HighRiskOn(time_series_df.rows[k].date)))

\* C12 witness: the daily table holds a day with a record of exactly 0.6 next
\* to a counted record, and a later day with records after the last
\* high-risk record
C12_Witness ==
    /\ Aggregated
    /\ \E k \in DOMAIN time_series_df.rows :
          /\ \E i \in RecordsOn(time_series_df.rows[k].date) :
                analyzed_df.rows[i].risk_score = Rat(6, 10)
          /\ time_series_df.rows[k].high_risk_count = R(1)
          /\ \E j \in DOMAIN time_series_df.rows :
                /\ j > k
                /\ RecordsOn(time_series_df.rows[j].date) # {}
                /\ time_series_df.rows[j].high_risk_count = R(0)
                /\ \A m \in DOMAIN time_series_df.rows :
                      m > k => HighRiskOn(time_series_df.rows[m].date) = {}

\* the 7-day average that a daily row holds for base_columns[c]
AvgField(row, c) ==
    CASE c = 1 -> row.asteroid_count_7d_avg
      [] c = 2 -> row.avg_diameter_km_7d_avg
      [] c = 3 -> row.avg_velocity_km_s_7d_avg
      [] c = 4 -> row.avg_miss_distance_km_7d_avg
      [] c = 5 -> row.avg_risk_score_7d_avg
      [] c = 6 -> row.high_risk_count_7d_avg

\* the sum of the numbers among entries lo..hi of a column
RECURSIVE SumOver(_, _, _)
SumOver(col, lo, hi) ==
    IF hi < lo THEN R(0)
    ELSE Add(SumOver(col, lo, hi - 1), fillna0(col[hi]))

\* C13: for every base column c and every row i of the daily table (days
\* numbered from 1), c_7d_avg on day i is the mean of c over the days
\* max(1, i - 6)..i that have a value for c; on day 1 it is day 1's raw value
\* and on day 8 it is the mean of days 2 to 8, without day 1.
C13_TrailingSevenDayMean ==
    Aggregated =>
        \A c \in DOMAIN base_columns : \A i \in DOMAIN time_series_df.rows :
            LET col == Column(time_series_df.rows, base_columns[c])
                lo == IF i - 6 > 1 THEN i - 6 ELSE 1
                have == {j \in lo..i : ~IsNaN(col[j])}
                avg == AvgField(time_series_df.rows[i], c)
            IN  /\ IF have = {} THEN IsNaN(avg)
                   ELSE /\ ~IsNaN(avg)
                        /\ Mul(avg, R(Cardinality(have))) = SumOver(col, lo, i)
                /\ i = 1 => avg = col[1]

\* C13 witness: a daily table of at least 8 days has been built whose day-8
\* average of asteroid_count differs from the mean over days 1 to 8
C13_Witness ==
    /\ Aggregated
    /\ Len(time_series_df.rows) >= 8
    /\ time_series_df.rows[8].asteroid_count_7d_avg
          # Mean(SubSeq(Column(time_series_df.rows, "asteroid_count"), 1, 8))
    /\ time_series_df.rows[8].asteroid_count_7d_avg
          = Mean(SubSeq(Column(time_series_df.rows, "asteroid_count"), 2, 8))

\* the batch of the end-to-end scenario: the three records, none hazardous,
\* in record order
ScenarioBatch ==
    <<ScenarioRecordAt(0), ScenarioRecordAt(2), ScenarioRecordAt(4)>>

\* calculate_risk_score has returned the table of the scenario batch
ScenarioScored == pc = "zscores" /\ ~df.isNone /\ df.rows = ScenarioBatch

\* x is within 0.001 of thousandths / 1000
Approximately(x, thousandths) ==
    /\ ~IsNaN(x)
    /\ Le(Rat(thousandths - 1, 1000), x)
    /\ Le(x, Rat(thousandths + 1, 1000))

\* C17 as stated: the scenario batch gets risk scores of approximately 0.3,
\* 0.328 and 0.7 and risk levels Medium, Medium and High, in record order.
C17_ScenarioAsStated ==
    ScenarioScored =>
        /\ Approximately(scored_df.rows[1].risk_score, 300)
        /\ Approximately(scored_df.rows[2].risk_score, 328)
        /\ Approximately(scored_df.rows[3].risk_score, 700)
        /\ Column(scored_df.rows, "risk_level") = <<"Medium", "Medium", "High">>

\* C17 amended: the scenario batch gets risk scores 0.3, 403/900 (about
\* 0.448) and 0.7 and risk levels Low, Medium and High, in record order.
C17_ScenarioScores ==
    ScenarioScored =>
        /\ scored_df.rows[1].risk_score = Rat(3, 10)
        /\ scored_df.rows[2].risk_score = Rat(403, 900)
        /\ Approximately(scored_df.rows[2].risk_score, 448)
        /\ scored_df.rows[3].risk_score = Rat(7, 10)
        /\ Column(scored_df.rows, "risk_level") = <<"Low", "Medium", "High">>

\* C17 witness: the scenario batch has been scored, its middle record
\* strictly between 0.4 and 0.6
C17_Witness ==
    /\ ScenarioScored
    /\ Len(scored_df.rows) = 3
    /\ Lt(Rat(4, 10), scored_df.rows[2].risk_score)
    /\ Lt(scored_df.rows[2].risk_score, Rat(6, 10))

\* clean_dataframe has returned a table for the non-empty table flat_df
Cleaned == pc = "save_clean" /\ ~flat_df.isNone /\ ~empty(flat_df)

\* the rows of flat_df whose value in a column is a number
NumbersOf(name) ==
    {j \in DOMAIN flat_df.rows : flat_df.rows[j][name].d > 0}

\* m is the median of the numbers of a column of flat_df: one of them with
\* fewer than half of them below it and fewer than half above it, or the
\* midpoint of two neighbouring ones that split them into equal halves
IsMedian(m, name) ==
    LET V == NumbersOf(name)
        x(j) == flat_df.rows[j][name]
    IN  \/ /\ \E j \in V : x(j) = m
           /\ 2 * Cardinality({j \in V : Lt(x(j), m)}) < Cardinality(V)
           /\ 2 * Cardinality({j \in V : Lt(m, x(j))}) < Cardinality(V)
        \/ \E a, b \in V :
              /\ Lt(x(a), x(b))
              /\ \A j \in V : Le(x(j), x(a)) \/ Le(x(b), x(j))
              /\ 2 * Cardinality({j \in V : Le(x(j), x(a))}) = Cardinality(V)
              /\ Add(m, m) = Add(x(a), x(b))

\* C14: for every non-empty batch clean_dataframe replaces each missing or
\* unparseable value of a numeric column by the median of the column's valid
\* values and leaves valid values unchanged, so every numeric column with at
\* least one valid value has no missing value in the output.
C14_MedianImputation ==
    Cleaned =>
        \A c \in DOMAIN numeric_columns : \A i \in DOMAIN flat_df.rows :
            LET name == numeric_columns[c]
                old == flat_df.rows[i][name]
                new == cleaned_df.rows[i][name]
            IN  /\ Len(cleaned_df.rows) = Len(flat_df.rows)
                /\ i \in NumbersOf(name) => new = old
                /\ (i \notin NumbersOf(name) /\ NumbersOf(name) # {})
                      => new.d > 0 /\ IsMedian(new, name)

\* C14 witness: a value that is not a number has been replaced in a column
\* of three numbers whose median differs from their mean, and a missing
\* value in a column of two distinct numbers
C14_Witness ==
    /\ Cleaned
    /\ \E i \in DOMAIN flat_df.rows :
          /\ flat_df.rows[i].diameter_min_km = Text
          /\ Cardinality(NumbersOf("diameter_min_km")) = 3
          /\ cleaned_df.rows[i].diameter_min_km
                # Mean(Column(cleaned_df.rows, "diameter_min_km"))
    /\ \E i \in DOMAIN flat_df.rows :
          /\ IsNaN(flat_df.rows[i].miss_distance_km)
          /\ Cardinality(NumbersOf("miss_distance_km")) = 2
          /\ \A j \in NumbersOf("miss_distance_km") :
                flat_df.rows[j].miss_distance_km
                    # cleaned_df.rows[i].miss_distance_km

\* flatten_asteroid_data has been called on a document with
\* 'near_earth_objects'
FlattenCalled ==
    pc \in {"create", "raised"} /\ ~raw_data.isNone /\ raw_data.neo

\* C15: for every asteroid entry that carries estimated_diameter.kilometers,
\* diameter_mean_km is (diameter_min_km + diameter_max_km) / 2 exactly when
\* both the min and the max value are present, for every numeric value they
\* can take, and null exactly when at least one of them is absent.
C15_DiameterMeanWhenBothPresent ==
    (FlattenCalled /\ pc = "create") =>
        \A i \in DOMAIN raw_data.rows :
            LET asteroid == raw_data.rows[i]
                info == flattened_data.rows[i]
            IN  asteroid.estimated_diameter_kilometers =>
                    IF /\ ~IsNaN(asteroid.estimated_diameter_min)
                       /\ ~IsNaN(asteroid.estimated_diameter_max)
                    THEN Add(info.diameter_mean_km, info.diameter_mean_km)
                            = Add(asteroid.estimated_diameter_min,
                                  asteroid.estimated_diameter_max)
                    ELSE IsNaN(info.diameter_mean_km)

\* an entry whose miss-distance or velocity value is not a number
Unparseable(asteroid) ==
    /\ asteroid.close_approach_data
    /\ \/ asteroid.has_miss_distance /\ asteroid.kilometers = Text
       \/ asteroid.has_relative_velocity /\ asteroid.kilometers_per_hour = Text

\* C16: when one entry of a raw record fails the expected shape (a missing
\* key or an unparseable miss-distance or velocity value),
\* flatten_asteroid_data skips or partially fills only that entry and still
\* returns a flat record for every other entry; it does not fail or discard
\* the whole batch.
C16_MalformedEntryIsolated ==
    FlattenCalled =>
        /\ pc # "raised"
        /\ ~flattened_data.raised
        /\ Len(flattened_data.rows)
              >= Cardinality({i \in DOMAIN raw_data.rows :
                                 ~Unparseable(raw_data.rows[i])})

\* the three stages of the pipeline in the order load_data calls them
Stages == <<"fetch", "process", "analyze">>

Success == "Data pipeline completed successfully!"

\* a call of load_data has ended, by a return or by an exception
CallEnded == pc \in {"done", "raised"}

C18_Order ==
    /\ pc \in {"load_data", "fetch"} => ran = <<>>
    /\ pc = "load_raw" => ran = SubSeq(Stages, 1, 1)
    /\ pc \in {"flatten", "create", "clean", "save_clean"}
          => ran = SubSeq(Stages, 1, 2)
    /\ pc \in {"load", "risk", "zscores", "time_series", "viz",
               "save_analyzed", "save_time_series", "returned"}
          => ran = Stages /\ ~cleaned_df.isNone
    /\ CallEnded => \E k \in 0..3 : ran = SubSeq(Stages, 1, k)
    /\ (pc = "done" /\ ran = SubSeq(Stages, 1, 1)) => raw_data.isNone
    /\ (pc = "done" /\ ran = SubSeq(Stages, 1, 2)) => cleaned_df.isNone
    /\ (pc = "done" /\ message = Success) => ran = Stages
    /\ (pc = "done" /\ ran = <<>>)
          => /\ message = "none"
             /\ analyzed_df = EnvFiles.asteroids_analyzed
             /\ time_series_df = EnvFiles.time_series_data

\* the branch of load_data: the pipeline starts iff a table is absent from
\* DATA_DIR, and otherwise the call ends without a change to any file
C18_Trigger ==
    (pc = "load_data" /\ pc' # "load_data") =>
        IF \/ EnvFiles.asteroids_analyzed.isNone
           \/ EnvFiles.time_series_data.isNone
        THEN pc' = "fetch"
        ELSE pc' = "done" /\ ran' = <<>> /\ files' = files
                /\ alt_files' = alt_files

C19_StagesLeaveInputUnchanged ==
    [][/\ (pc = "clean" /\ pc' # pc) => flat_df' = flat_df
       /\ (pc = "risk" /\ pc' # pc) => df' = df
       /\ (pc = "zscores" /\ pc' # pc) => scored_df' = scored_df
       /\ (pc = "time_series" /\ pc' # pc) => analyzed_df' = analyzed_df]_vars

\* C19 witness: the four stages have run, the cleaner has imputed a value
\* that is still missing in its input, and the scorer's input has no
\* risk_score column while its output has scores
C19_Witness ==
    /\ pc = "viz"
    /\ ran = Stages
    /\ \E i \in DOMAIN flat_df.rows :
          /\ IsNaN(flat_df.rows[i].diameter_mean_km)
          /\ ~IsNaN(cleaned_df.rows[i].diameter_mean_km)
    /\ "risk_score" \notin DOMAIN df.rows[1]
    /\ ~IsNaN(scored_df.rows[1].risk_score)
    /\ "is_anomaly" \notin DOMAIN scored_df.rows[1]
    /\ ~time_series_df.isNone

\* C20: for every setting of DATA_DIR, after load_data has run the pipeline
\* to its success message both tables exist at the paths load_data checks,
\* so the next call reads them and does not run the pipeline again; and each
\* stage reads its input from the directory the previous stage wrote it to.
C20_StagesShareDataDir ==
    /\ (pc = "done" /\ message = Success)
          => /\ ~EnvFiles.asteroids_analyzed.isNone
             /\ ~EnvFiles.time_series_data.isNone
    /\ pc = "load_raw" => EnvFiles.asteroids_raw = raw_data
    /\ pc = "load" => files.asteroids_clean = cleaned_df

\* the requests whose date range holds a day
RequestsFor(day) ==
    {k \in DOMAIN requests :
        requests[k].start_date <= day /\ day <= requests[k].end_date}

\* the ranges requested so far are contiguous, non-overlapping, of at most
\* chunk_size days, begin at start and stay within start..end; when the call
\* has returned they end at end and every day has been requested once
C21_Chunks ==
    pc \in {"chunks", "fetched"} =>
        /\ \A k \in DOMAIN requests :
              /\ requests[k].start_date <= requests[k].end_date
              /\ requests[k].end_date - requests[k].start_date + 1 <= chunk_size
              /\ requests[k].start_date
                    = IF k = 1 THEN start ELSE requests[k - 1].end_date + 1
              /\ requests[k].end_date <= end
        /\ Len(requests) <= end - start + 1
        /\ \A day \in start..end : Cardinality(RequestsFor(day)) <= 1
        /\ pc = "fetched" =>
              /\ Len(requests) >= 1
              /\ requests[Len(requests)].end_date = end
              /\ \A day \in start..end : Cardinality(RequestsFor(day)) = 1

\* every turn of the loop moves current_start forward and adds one request,
\* whatever the response is
C21_Progress ==
    (pc = "chunks" /\ pc' = "chunks" /\ requests' # requests) =>
        /\ current_start' > current_start
        /\ current_start' <= end + 1
        /\ Len(requests') = Len(requests) + 1

C22_CountsAddUp ==
    Aggregated =>
        LET ts == time_series_df.rows
        IN  /\ \A k \in DOMAIN ts :
                  ts[k].asteroid_count.d = 1 /\ ts[k].high_risk_count.d = 1
            /\ IntSum([k \in DOMAIN ts |-> ts[k].asteroid_count.n], Len(ts))
                  = Len(analyzed_df.rows)
            /\ \A k \in DOMAIN ts :
                  /\ 0 <= ts[k].high_risk_count.n
                  /\ ts[k].high_risk_count.n <= ts[k].asteroid_count.n

\* C22 witness: the daily table of a batch of at least three records holds a
\* day without records, a day whose records are all high-risk and a day with
\* more records than high-risk records
C22_Witness ==
    /\ Aggregated
    /\ Len(analyzed_df.rows) >= 3
    /\ \E k \in DOMAIN time_series_df.rows :
          time_series_df.rows[k].asteroid_count = R(0)
    /\ \E k \in DOMAIN time_series_df.rows :
          /\ time_series_df.rows[k].high_risk_count = R(1)
          /\ time_series_df.rows[k].asteroid_count = R(1)
    /\ \E k \in DOMAIN time_series_df.rows :
          /\ time_series_df.rows[k].high_risk_count = R(1)
          /\ time_series_df.rows[k].asteroid_count = R(2)

====
